---------------------------- MODULE Spec2Model ----------------------------
(***************************************************************************)
(* Model of src/main.py: a PySimpleGUI front end over a tesseract wrapper. *)
(*                                                                         *)
(* Representation.  A Python str that the program only passes around (a    *)
(* path, a command-line word, a message) is a sequence of tokens, each     *)
(* token a TLA+ string standing for a run of characters.  A file path fed  *)
(* to the regular expression is a sequence of one-character tokens.  Bytes *)
(* read from the engine (its standard error, its output file) are          *)
(* sequences of integers 0..255, and the text decoded from them is a       *)
(* sequence of code points.  An optional value (None or a value) is the    *)
(* empty set or a singleton.                                               *)
(***************************************************************************)
EXTENDS Integers, Sequences, FiniteSets, TLC

VARIABLES
    pc,             \* position of the single thread of control
    tempdir,        \* directory NamedTemporaryFile creates its files in
    fs,             \* paths of the files that exist on disk
    event,          \* event returned by window.read()
    file_path,      \* values[0]
    lang_code,      \* 'rus' if values[1] else 'eng'
    printed,        \* what this iteration of the loop printed to the pane
    uncaught,       \* exception that left the module-level loop
    caller,         \* who called into the wrapper: the loop or a direct call
    image,          \* the caller's object passed as `image`
    image0,         \* that object as it was when the call was made
    prepared,       \* the image object prepare returned
    extension,      \* run_and_get_output's extension argument
    lang,           \* run_and_get_output's lang argument (optional)
    temp_name,      \* f.name of the NamedTemporaryFile (optional)
    input_filename, \* second component of what save yields (optional)
    cmd_args,       \* argument vector handed to subprocess.Popen
    popen_errno,    \* errno of the OSError Popen raised (optional)
    returncode,     \* proc.returncode (optional)
    error_string,   \* bytes communicate() read from standard error
    streams,        \* state of proc.stdin/stdout/stderr
    outbytes,       \* content of <temp_name>.<extension> (optional)
    pending,        \* value or exception travelling out of the with-body
    result,         \* what the call returned or raised to its caller
    stages,         \* history: stages this request has executed, in order
    stage_error     \* history: error of the first stage that failed

vars == << pc, tempdir, fs, event, file_path, lang_code, printed, uncaught,
           caller, image, image0, prepared, extension, lang, temp_name,
           input_filename, cmd_args, popen_errno, returncode, error_string,
           streams, outbytes, pending, result, stages, stage_error >>

gui_vars == << event, file_path, lang_code, printed, uncaught >>

req_vars == << image, image0, prepared, extension, lang, temp_name,
               input_filename, cmd_args, popen_errno, returncode,
               error_string, streams, outbytes, pending, result, stages,
               stage_error >>

-----------------------------------------------------------------------------
(* Bounds of the model.                                                    *)

\* longest standard-error output of the engine that is enumerated
MaxErrLen == 3
\* longest output file of the engine that is enumerated
MaxOutLen == 2

-----------------------------------------------------------------------------
(* Generic helpers.                                                        *)

None == {}
Some(x) == {x}
The(opt) == CHOOSE x \in opt : TRUE

RECURSIVE SeqsUpTo(_, _)
SeqsUpTo(S, n) ==
    IF n = 0 THEN { <<>> }
    ELSE LET shorter == SeqsUpTo(S, n - 1)
         IN  shorter \cup { Append(s, x) : s \in shorter, x \in S }

Drop(s, k) == SubSeq(s, k + 1, Len(s))
Take(s, k) == SubSeq(s, 1, k)
Range(s) == { s[i] : i \in 1..Len(s) }

-----------------------------------------------------------------------------
(* bytes.decode('utf-8'), str.splitlines, str.join, str.strip.             *)

\* The bytes the engine may write: LF, space, 'a', and 0xC3 0xA9 (the two
\* bytes of U+00E9; either of them alone is not valid UTF-8).
ByteVals == {10, 32, 97, 195, 169}

IsContinuation(b) == b >= 128 /\ b <= 191

\* Strict UTF-8 decoding of one- and two-byte forms (ByteVals holds no lead
\* byte of a longer form): [ok, text].
RECURSIVE decode_utf8(_)
decode_utf8(bytes) ==
    IF bytes = <<>> THEN [ok |-> TRUE, text |-> <<>>]
    ELSE LET b == Head(bytes)
         IN  IF b < 128
             THEN LET r == decode_utf8(Tail(bytes))
                  IN  [ok |-> r.ok, text |-> <<b>> \o r.text]
             ELSE IF b >= 194 /\ b <= 223 /\ Len(bytes) >= 2
                     /\ IsContinuation(bytes[2])
             THEN LET r == decode_utf8(Drop(bytes, 2))
                  IN  [ok |-> r.ok,
                       text |-> << (b - 192) * 64 + (bytes[2] - 128) >> \o r.text]
             ELSE [ok |-> FALSE, text |-> <<>>]

\* Code points str.splitlines breaks a line at.
LineBreaks == {10, 11, 12, 13, 28, 29, 30, 133, 8232, 8233}

\* Code points str.strip removes (str.isspace).
StripSpace == {9, 10, 11, 12, 13, 28, 29, 30, 31, 32, 133, 160}

\* str.splitlines(): the lines without their line breaks; CR LF is one
\* break; a break at the very end opens no further line.
RECURSIVE splitlines_from(_, _)
splitlines_from(text, cur) ==
    IF text = <<>>
    THEN IF cur = <<>> THEN <<>> ELSE <<cur>>
    ELSE IF Head(text) \in LineBreaks
         THEN LET skip == IF Head(text) = 13 /\ Len(text) >= 2 /\ text[2] = 10
                          THEN 2 ELSE 1
              IN  <<cur>> \o splitlines_from(Drop(text, skip), <<>>)
         ELSE splitlines_from(Tail(text), Append(cur, Head(text)))

splitlines(text) == splitlines_from(text, <<>>)

\* u' '.join(lines)
RECURSIVE join_space(_)
join_space(lines) ==
    IF lines = <<>> THEN <<>>
    ELSE IF Len(lines) = 1 THEN lines[1]
    ELSE lines[1] \o <<32>> \o join_space(Tail(lines))

RECURSIVE lstrip(_)
lstrip(text) ==
    IF text # <<>> /\ Head(text) \in StripSpace THEN lstrip(Tail(text)) ELSE text

RECURSIVE rstrip(_)
rstrip(text) ==
    IF text # <<>> /\ text[Len(text)] \in StripSpace
    THEN rstrip(Take(text, Len(text) - 1)) ELSE text

strip(text) == rstrip(lstrip(text))

\* get_errors(error_string): [ok, text]; ok is FALSE when decode raises
\* UnicodeDecodeError.
get_errors(error_string_) ==
    LET d == decode_utf8(error_string_)
    IN  [ok |-> d.ok,
         text |-> IF d.ok THEN strip(join_space(splitlines(d.text))) ELSE <<>>]

-----------------------------------------------------------------------------
(* re.match(image_regex, file_path), image_regex = '\S+.(png|jpg|jpeg)$'.  *)

\* Characters \S does not match.
RegexSpace == {" ", "\t", "\n", "\r", "\f"}

\* The alternatives of the group (png|jpg|jpeg).
RegexSuffixes == { <<"p", "n", "g">>, <<"j", "p", "g">>, <<"j", "p", "e", "g">> }

\* '$' without re.MULTILINE: the end of the string, or just before a
\* newline that ends the string.
AtDollar(rest) == rest = <<>> \/ rest = <<"\n">>

\* re.match anchors at the start; \S+ takes path[1..i], '.' takes any one
\* character but a newline, then one alternative, then '$'.  The choice of
\* i stands for the backtracking of the greedy \S+.
image_regex_match(path) ==
    \E i \in 1..Len(path) :
        /\ \A k \in 1..i : path[k] \notin RegexSpace
        /\ Len(path) >= i + 1
        /\ path[i + 1] # "\n"
        /\ \E suf \in RegexSuffixes :
              /\ Len(path) >= i + 1 + Len(suf)
              /\ SubSeq(path, i + 2, i + 1 + Len(suf)) = suf
              /\ AtDollar(Drop(path, i + 1 + Len(suf)))

-----------------------------------------------------------------------------
(* Paths, fnmatch and glob.iglob.                                          *)

Sep == "/"

LastSep(p) ==
    IF \E i \in 1..Len(p) : p[i] = Sep
    THEN CHOOSE i \in 1..Len(p) : p[i] = Sep /\ \A j \in (i + 1)..Len(p) : p[j] # Sep
    ELSE 0

\* os.path.split
dirname(p) == Take(p, LastSep(p) - 1)
basename(p) == Drop(p, LastSep(p))

\* The components between the separators.
RECURSIVE components_from(_, _)
components_from(p, cur) ==
    IF p = <<>> THEN <<cur>>
    ELSE IF Head(p) = Sep THEN <<cur>> \o components_from(Tail(p), <<>>)
    ELSE components_from(Tail(p), Append(cur, Head(p)))

components(p) == components_from(p, <<>>)

\* glob.has_magic
has_magic(p) == \E i \in 1..Len(p) : p[i] \in {"*", "?", "["}

\* Index of the "]" closing the class opened at pat[1], 0 when there is none
\* (the first character of a class may itself be "]").
ClassEnd(pat) ==
    LET from == IF Len(pat) >= 2 /\ pat[2] = "!" THEN 4 ELSE 3
    IN  IF \E j \in from..Len(pat) : pat[j] = "]"
        THEN CHOOSE j \in from..Len(pat) :
                 pat[j] = "]" /\ \A k \in from..(j - 1) : pat[k] # "]"
        ELSE 0

\* fnmatch.fnmatchcase(name, pat)
RECURSIVE fnmatch(_, _)
fnmatch(pat, name) ==
    IF pat = <<>> THEN name = <<>>
    ELSE IF Head(pat) = "*"
    THEN \E k \in 0..Len(name) : fnmatch(Tail(pat), Drop(name, k))
    ELSE IF Head(pat) = "?"
    THEN name # <<>> /\ fnmatch(Tail(pat), Tail(name))
    ELSE IF Head(pat) = "[" /\ ClassEnd(pat) # 0
    THEN LET j == ClassEnd(pat)
             negated == pat[2] = "!"
             members == { pat[k] : k \in (IF negated THEN 3 ELSE 2)..(j - 1) }
         IN  /\ name # <<>>
             /\ (Head(name) \in members) # negated
             /\ fnmatch(Drop(pat, j), Tail(name))
    ELSE name # <<>> /\ Head(name) = Head(pat) /\ fnmatch(Tail(pat), Tail(name))

\* Whether directory dir is one of those the directory part of a pattern
\* expands to: a component without magic must be equal, one with magic
\* must fnmatch.
glob_dir(patdir, dir) ==
    LET pcs == components(patdir)
        dcs == components(dir)
    IN  /\ Len(pcs) = Len(dcs)
        /\ \A i \in 1..Len(pcs) :
              IF has_magic(pcs[i]) THEN fnmatch(pcs[i], dcs[i]) ELSE pcs[i] = dcs[i]

\* glob.iglob(pattern) over the files of disk
iglob(pattern, disk) ==
    IF ~has_magic(pattern) THEN { f \in disk : f = pattern }
    ELSE { f \in disk : /\ glob_dir(dirname(pattern), dirname(f))
                        /\ fnmatch(basename(pattern), basename(f)) }

\* The files cleanup(temp_name) iterates over.
cleanup_targets(name, disk) ==
    iglob(IF name # <<>> THEN name \o <<"*">> ELSE name, disk)

-----------------------------------------------------------------------------
(* Arguments passed as `image`, and prepare.                               *)

\* A decoded PIL image: its mode, its format attribute (optional), its
\* size and its pixels in row order, each pixel a tuple of band values.
Image(mode, format, size, pix) ==
    [kind |-> "Image", mode |-> mode, format |-> format, size |-> size,
     pix |-> pix, path |-> <<>>]

\* A str passed as `image`: a file path.
StrArg(path) ==
    [kind |-> "str", mode |-> "", format |-> None, size |-> <<0, 0>>,
     pix |-> <<>>, path |-> path]

\* Any other object passed as `image`.
OtherArg ==
    [kind |-> "other", mode |-> "", format |-> None, size |-> <<0, 0>>,
     pix |-> <<>>, path |-> <<>>]

NoImage ==
    [kind |-> "none", mode |-> "", format |-> None, size |-> <<0, 0>>,
     pix |-> <<>>, path |-> <<>>]

\* Image.getbands()
getbands(mode) ==
    CASE mode = "L" -> <<"L">>
      [] mode = "LA" -> <<"L", "A">>
      [] mode = "RGB" -> <<"R", "G", "B">>
      [] mode = "RGBA" -> <<"R", "G", "B", "A">>
      [] OTHER -> <<>>

HasAlpha(mode) == "A" \in Range(getbands(mode))

\* image.getchannel('A') at one pixel
alpha_of(mode, px) ==
    px[CHOOSE i \in 1..Len(getbands(mode)) : getbands(mode)[i] = "A"]

\* The pixel converted to the mode of the RGB image it is pasted into.
to_rgb(mode, px) ==
    IF mode \in {"L", "LA"} THEN <<px[1], px[1], px[1]>> ELSE <<px[1], px[2], px[3]>>

\* Pillow's DIV255: x / 255 rounded, on integers.
DIV255(x) == (((x + 128) \div 256) + (x + 128)) \div 256

\* One band of paste with an L mask: the pasted value over what was there.
blend(under, over, mask) == DIV255(under * (255 - mask) + over * mask)

White == <<255, 255, 255>>

\* Image.new('RGB', size, (255, 255, 255)) with `img` pasted over it
\* through its own alpha channel.
flatten(img) ==
    [kind |-> "Image", mode |-> "RGB", format |-> None, size |-> img.size,
     pix |-> [ i \in 1..Len(img.pix) |->
                 LET src == to_rgb(img.mode, img.pix[i])
                     a == alpha_of(img.mode, img.pix[i])
                 IN  [ c \in 1..3 |-> blend(White[c], src[c], a) ] ],
     path |-> <<>>]

\* A variant of prepare with the format attribute set on the caller's object in every case.
prepare_sets_format_on_arg(img) ==
    IF img.kind # "Image"
    THEN [raised |-> TRUE, image |-> NoImage, extension |-> "", arg |-> img]
    ELSE LET ext == IF img.format = None THEN "PNG" ELSE The(img.format)
             marked == [img EXCEPT !.format = Some(ext)]
         IN  IF HasAlpha(img.mode)
             THEN [raised |-> FALSE,
                   image |-> [flatten(img) EXCEPT !.format = Some(ext)],
                   extension |-> ext, arg |-> marked]
             ELSE [raised |-> FALSE, image |-> marked, extension |-> ext,
                   arg |-> marked]

\* prepare(image): raised is TRUE for the TypeError; otherwise `image` is
\* the object returned, `extension` the format tag returned, and `arg` the
\* caller's object after the call.
prepare(img) ==
    IF img.kind # "Image"
    THEN [raised |-> TRUE, image |-> NoImage, extension |-> "", arg |-> img]
    ELSE LET ext == IF img.format = None THEN "PNG" ELSE The(img.format)
         IN  IF HasAlpha(img.mode)
             THEN [raised |-> FALSE,
                   image |-> [flatten(img) EXCEPT !.format = Some(ext)],
                   extension |-> ext, arg |-> img]
             ELSE LET marked == [img EXCEPT !.format = Some(ext)]
                  IN  [raised |-> FALSE, image |-> marked, extension |-> ext,
                       arg |-> marked]

-----------------------------------------------------------------------------
(* Values returned and exceptions raised.                                  *)

\* kind: "none", "return" or "raise".  type: the exception class.  origin:
\* the call that raised.  errno: of an OSError.  status, data: of a
\* TesseractError (status, message), or data the str returned.  msg: a
\* fixed message.
Outcome(kind, type, origin, errno, status, data, msg) ==
    [kind |-> kind, type |-> type, origin |-> origin, errno |-> errno,
     status |-> status, data |-> data, msg |-> msg]

NoOutcome == Outcome("none", "", "", "", 0, <<>>, <<>>)

Returned(text) == Outcome("return", "", "", "", 0, text, <<>>)

RaisedOS(type, origin, errno) == Outcome("raise", type, origin, errno, 0, <<>>, <<>>)

tesseract_cmd == "tesseract"

\* TesseractNotFoundError()
TesseractNotFoundError ==
    Outcome("raise", "TesseractNotFoundError", "Popen", "", 0, <<>>,
            << tesseract_cmd, " is not installed or it's not in your PATH.",
               " See README file for more information." >>)

\* TesseractError(status, message)
TesseractError(status, message) ==
    Outcome("raise", "TesseractError", "run_tesseract", "", status, message, <<>>)

\* TypeError('Unsupported image object')
UnsupportedImage ==
    Outcome("raise", "TypeError", "prepare", "", 0, <<>>, <<"Unsupported image object">>)

\* What is printed to the Output element.
NothingPrinted == [kind |-> "none", lit |-> <<>>, data |-> <<>>]
PrintedLiteral(words) == [kind |-> "literal", lit |-> words, data |-> <<>>]
PrintedData(text) == [kind |-> "data", lit |-> <<>>, data |-> text]

-----------------------------------------------------------------------------
(* Inputs and the environment.                                             *)

\* Directories tempfile may be configured to use (TMPDIR): a plain one and
\* one whose name holds glob metacharacters.
PlainTemp == <<Sep, "tmp">>
BracketTemp == <<Sep, "tmp", Sep, "[", "x", "]">>
TempDirs == { PlainTemp, BracketTemp }

\* The user's image file, which is on disk all along.
UserImage == <<Sep, "home", Sep, "a.png">>
Cwd == <<Sep, "home">>

\* realpath(normpath(normcase(path))) on a POSIX system without symbolic
\* links: normcase changes nothing, a relative path is joined to the
\* working directory.
resolve(path) ==
    IF path # <<>> /\ Head(path) = Sep THEN path ELSE Cwd \o <<Sep>> \o path

\* Band values the sample pixels are built from.
BandVals == {0, 128, 255}

PixelsOf(mode) ==
    { p \in SeqsUpTo(BandVals, 4) : Len(p) = Len(getbands(mode)) }

Formats == { None, Some("PNG"), Some("JPEG") }

\* Images passed to prepare on their own: every one-pixel image of the four
\* modes, and a few two-pixel ones.
PrepareImages ==
    UNION { { Image(m, f, <<1, 1>>, <<p>>) : p \in PixelsOf(m), f \in Formats }
            : m \in {"L", "LA", "RGB", "RGBA"} }
    \cup { Image("RGBA", None, <<2, 1>>, << <<0, 128, 255, a>>, <<255, 0, 0, b>> >>)
           : a \in BandVals, b \in BandVals }

PrepareInputs == PrepareImages \cup { OtherArg, StrArg(<<"a.png">>) }

\* Images a request is run with.
SampleImages ==
    { Image("RGB", Some("PNG"), <<1, 1>>, << <<0, 128, 255>> >>),
      Image("RGBA", None, <<1, 1>>, << <<0, 128, 255, 128>> >>),
      Image("LA", Some("JPEG"), <<1, 1>>, << <<128, 0>> >>) }

\* What Image.open returns for a file it can decode: the format is set.
OpenedImages == { img \in SampleImages : img.format # None }

\* Arguments of a direct call of the wrapper.
ApiImages == SampleImages \cup { StrArg(<<"a.png">>), StrArg(UserImage), OtherArg }
ApiLangs == { None, Some(<<"eng">>) }
ApiExtensions == { <<"txt">>, <<>> }

\* Engine output worth naming.
HelloWorld == <<104, 101, 108, 108, 111, 32, 119, 111, 114, 108, 100>>
BadImage == <<69, 114, 114, 111, 114, 58, 32, 98, 97, 100, 32, 105, 109, 97, 103, 101>>

ErrStrings == SeqsUpTo(ByteVals, MaxErrLen) \cup { BadImage }
OutStrings == SeqsUpTo(ByteVals, MaxOutLen) \cup { HelloWorld }

\* What a launched engine may do: its exit status, what it wrote to
\* standard error, and the bytes of the output file it wrote, if any (a
\* failing engine may have left an output file behind).
EngineBehaviours ==
    { [status |-> 0, err |-> e, out |-> o] :
        e \in { <<>>, <<97>> }, o \in { None } \cup { Some(b) : b \in OutStrings } }
    \cup
    { [status |-> st, err |-> e, out |-> None] : st \in {1, 2}, e \in ErrStrings }
    \cup
    { [status |-> st, err |-> BadImage, out |-> Some(<<97>>)] : st \in {1, 2} }

\* File paths typed into the form, character by character.
ExtPng == <<".", "p", "n", "g">>
PathAPng == <<"a">> \o ExtPng
PathAJpg == <<"a", ".", "j", "p", "g">>
PathAJpeg == <<"a", ".", "j", "p", "e", "g">>
PathNotesTxt == <<"n", "o", "t", "e", "s", ".", "t", "x", "t">>
PathPhotoUpper == <<"p", "h", "o", "t", "o", ".", "P", "N", "G">>
PathFooXpng == <<"f", "o", "o", "X", "p", "n", "g">>
PathMyDir == <<"m", "y", " ", "d", "i", "r", "/">> \o PathAPng
PathSpacedName == <<"a", " ", "b">> \o ExtPng
PathOnlyExt == ExtPng
PathNewline == PathAPng \o <<"\n">>
PathPngTxt == PathAPng \o <<".", "t", "x", "t">>

FilePaths ==
    { <<>>, PathAPng, PathAJpg, PathAJpeg, PathNotesTxt, PathPhotoUpper,
      PathFooXpng, PathMyDir, PathSpacedName, PathOnlyExt, PathNewline,
      PathPngTxt }

-----------------------------------------------------------------------------
(* The wrapper: save, run_tesseract, run_and_get_output, cleanup.          *)

\* The name NamedTemporaryFile(prefix='tess_') gives its file in dir.
TempFileIn(dir) == dir \o <<Sep, "tess_r1">>

\* The state of a request as run_and_get_output(img, ext, lng) is entered.
StartRequest(img, ext, lng) ==
    /\ image' = img
    /\ image0' = img
    /\ prepared' = NoImage
    /\ extension' = ext
    /\ lang' = lng
    /\ temp_name' = None
    /\ input_filename' = None
    /\ cmd_args' = <<>>
    /\ popen_errno' = None
    /\ returncode' = None
    /\ error_string' = <<>>
    /\ streams' = "none"
    /\ outbytes' = None
    /\ pending' = NoOutcome
    /\ result' = NoOutcome
    /\ stages' = <<>>
    /\ stage_error' = NoOutcome

\* An exception leaves the with-body: it travels to save's finally clause.
Fail(exc) ==
    /\ pending' = exc
    /\ stage_error' = exc
    /\ pc' = "save_exit"

\* How image.save(input_file_name, ...) may end: the file written; or an
\* OSError, with or without a partial file left behind.
SaveOutcomes == { "written", "failed_partial", "failed_clean" }

\* save(image) up to its yield (lines 89-98): the temporary file is
\* created; a str is resolved and used as it is; anything else goes through
\* prepare and is written beside the temporary file.
SaveEnter ==
    /\ pc = "save_enter"
    /\ stages' = Append(stages, "prepare_input")
    /\ \E created \in BOOLEAN :
          IF ~created
          THEN /\ Fail(RaisedOS("OSError", "NamedTemporaryFile", "EACCES"))
               /\ UNCHANGED << fs, temp_name, input_filename, image, prepared >>
          ELSE LET name == TempFileIn(tempdir)
               IN  /\ name \notin fs
                   /\ temp_name' = Some(name)
                   /\ IF image.kind = "str"
                      THEN /\ input_filename' = Some(resolve(image.path))
                           /\ fs' = fs \cup {name}
                           /\ pc' = "run_tesseract"
                           /\ UNCHANGED << image, prepared, pending, stage_error >>
                      ELSE LET p == prepare(image)
                               input_file_name == name \o <<".", p.extension>>
                           IN  IF p.raised
                               THEN /\ Fail(UnsupportedImage)
                                    /\ fs' = fs \cup {name}
                                    /\ UNCHANGED << input_filename, image, prepared >>
                               ELSE /\ image' = p.arg
                                    /\ prepared' = p.image
                                    /\ \E o \in SaveOutcomes :
                                          IF o = "written"
                                          THEN /\ fs' = fs \cup {name, input_file_name}
                                               /\ input_filename' = Some(input_file_name)
                                               /\ pc' = "run_tesseract"
                                               /\ UNCHANGED << pending, stage_error >>
                                          ELSE /\ Fail(RaisedOS("OSError", "image.save", "ENOSPC"))
                                               /\ fs' = fs \cup {name} \cup
                                                        (IF o = "failed_partial"
                                                         THEN {input_file_name} ELSE {})
                                               /\ UNCHANGED input_filename
    /\ UNCHANGED << tempdir, caller, extension, lang, image0, cmd_args, popen_errno,
                    returncode, error_string, streams, outbytes, result >>
    /\ UNCHANGED gui_vars

\* A variant of build_cmd with '-l' passed whether or not a language was given.
build_cmd_always_lang(input, output_base, ext, lng) ==
    << <<tesseract_cmd>>, input, output_base >>
    \o << <<"-l">>, IF lng = None THEN <<>> ELSE The(lng) >>
    \o (IF ext # <<>> THEN <<ext>> ELSE <<>>)

\* cmd_args as run_tesseract builds it (lines 123-130).
build_cmd(input, output_base, ext, lng) ==
    << <<tesseract_cmd>>, input, output_base >>
    \o (IF lng # None THEN << <<"-l">>, The(lng) >> ELSE <<>>)
    \o (IF ext # <<>> THEN <<ext>> ELSE <<>>)

\* How subprocess.Popen may end: the child started, or an OSError with one
\* of these errno values.
LaunchOutcomes == { "started", "ENOENT", "EACCES" }

\* A variant of launch_error with every OSError taken for a missing executable.
launch_error_always_not_found(errno) == TesseractNotFoundError

\* The exception run_tesseract raises when Popen raised OSError(errno)
\* (lines 134-137).
launch_error(errno) ==
    IF errno # "ENOENT" THEN RaisedOS("OSError", "Popen", errno)
    ELSE TesseractNotFoundError

\* The exception raised in the body of `with timeout_manager(proc)` for a
\* non-zero return code (lines 140-141).
exit_error(status, stderr_bytes) ==
    LET errors == get_errors(stderr_bytes)
    IN  IF errors.ok THEN TesseractError(status, errors.text)
        ELSE Outcome("raise", "UnicodeDecodeError", "get_errors", "", 0, <<>>, <<>>)

\* run_tesseract (lines 122-141): the command line is built and launched;
\* the child is waited for, its standard error read and its streams closed;
\* a non-zero return code raises TesseractError.
RunTesseract ==
    /\ pc = "run_tesseract"
    /\ LET cmd == build_cmd(The(input_filename), The(temp_name), extension, lang)
       IN  /\ cmd_args' = cmd
           /\ \E launch \in LaunchOutcomes :
                 IF launch # "started"
                 THEN /\ Fail(launch_error(launch))
                      /\ popen_errno' = Some(launch)
                      /\ stages' = Append(stages, "popen_failed")
                      /\ UNCHANGED << fs, returncode, error_string, streams, outbytes >>
                 ELSE \E b \in EngineBehaviours :
                        /\ stages' = Append(stages, "engine_ran")
                        /\ popen_errno' = None
                        /\ returncode' = Some(b.status)
                        /\ error_string' = b.err
                        /\ streams' = "closed"
                        /\ outbytes' = b.out
                        /\ fs' = IF b.out # None
                                 THEN fs \cup { The(temp_name) \o <<".", "txt">> }
                                 ELSE fs
                        /\ IF b.status # 0
                           THEN Fail(exit_error(b.status, b.err))
                           ELSE /\ pc' = "read_output"
                                /\ UNCHANGED << pending, stage_error >>
    /\ UNCHANGED << tempdir, caller, image, image0, prepared, extension, lang,
                    temp_name, input_filename, result >>
    /\ UNCHANGED gui_vars

\* A variant of read_output with undecodable bytes dropped instead of raising.
read_output_lossy(filename, disk, content) ==
    IF filename \notin disk \/ content = None
    THEN RaisedOS("FileNotFoundError", "open", "ENOENT")
    ELSE Returned(decode_utf8(The(content)).text)

\* What open(filename, 'rb').read().decode('utf-8') gives (lines 153-155).
read_output(filename, disk, content) ==
    IF filename \notin disk \/ content = None
    THEN RaisedOS("FileNotFoundError", "open", "ENOENT")
    ELSE LET d == decode_utf8(The(content))
         IN  IF d.ok THEN Returned(d.text)
             ELSE Outcome("raise", "UnicodeDecodeError", "decode", "", 0, <<>>, <<>>)

\* The rest of the with-body of run_and_get_output (lines 153-155).
ReadOutput ==
    /\ pc = "read_output"
    /\ stages' = Append(stages, "read_output")
    /\ LET filename == The(temp_name) \o <<".">> \o extension
           r == read_output(filename, fs, outbytes)
       IN  /\ pending' = r
           /\ stage_error' = IF r.kind = "raise" THEN r ELSE stage_error
    /\ pc' = "save_exit"
    /\ UNCHANGED << tempdir, fs, caller, image, image0, prepared, extension, lang,
                    temp_name, input_filename, cmd_args, popen_errno, returncode,
                    error_string, streams, outbytes, result >>
    /\ UNCHANGED gui_vars

\* errno values os.remove may fail with.
RemoveErrnos == { "ENOENT", "EACCES" }

\* Whether cleanup re-raises an OSError of remove (line 69).
remove_reraises(errno) == errno # "ENOENT"

\* How cleanup(temp_name) may end on disk (lines 64-70): `gone` are the
\* files no longer there, `err` the errno it raised with, if any.  Either
\* every remove succeeds, or the remove of some file `bad` fails with errno
\* e after the files `visited` were removed: re-raised, it ends the loop and
\* the files not yet visited stay; passed over, the loop goes on (and with
\* ENOENT `bad` is not there either).
cleanup(name, disk) ==
    LET targets == cleanup_targets(name, disk)
    IN  { [gone |-> targets, err |-> None] }
        \cup
        UNION { { IF remove_reraises(e)
                  THEN [gone |-> visited, err |-> Some(e)]
                  ELSE [gone |-> IF e = "ENOENT" THEN targets ELSE targets \ {bad},
                        err |-> None] :
                     e \in RemoveErrnos,
                     visited \in SUBSET (targets \ {bad}) }
                : bad \in targets }

\* save's finally clause (lines 99-100): cleanup(f.name); what was
\* travelling out of the with-body goes on to the caller unless cleanup
\* raises.  With f never bound, f.name raises UnboundLocalError.
SaveExit ==
    /\ pc = "save_exit"
    /\ stages' = Append(stages, "cleanup")
    /\ IF temp_name = None
       THEN /\ result' = Outcome("raise", "UnboundLocalError", "save", "", 0, <<>>, <<>>)
            /\ fs' = fs
       ELSE \E c \in cleanup(The(temp_name), fs) :
               /\ fs' = fs \ c.gone
               /\ result' = IF c.err = None THEN pending
                            ELSE RaisedOS("OSError", "remove", The(c.err))
    /\ pc' = "returned"
    /\ UNCHANGED << tempdir, caller, image, image0, prepared, extension, lang,
                    temp_name, input_filename, cmd_args, popen_errno, returncode,
                    error_string, streams, outbytes, pending, stage_error >>
    /\ UNCHANGED gui_vars

-----------------------------------------------------------------------------
(* The module-level event loop (lines 167-180) and process_image.          *)

\* The state of the wrapper's variables when no request is running.
NoRequest ==
    /\ image = NoImage
    /\ image0 = NoImage
    /\ prepared = NoImage
    /\ extension = <<>>
    /\ lang = None
    /\ temp_name = None
    /\ input_filename = None
    /\ cmd_args = <<>>
    /\ popen_errno = None
    /\ returncode = None
    /\ error_string = <<>>
    /\ streams = "none"
    /\ outbytes = None
    /\ pending = NoOutcome
    /\ result = NoOutcome
    /\ stages = <<>>
    /\ stage_error = NoOutcome

ClearRequest ==
    /\ image' = NoImage
    /\ image0' = NoImage
    /\ prepared' = NoImage
    /\ extension' = <<>>
    /\ lang' = None
    /\ temp_name' = None
    /\ input_filename' = None
    /\ cmd_args' = <<>>
    /\ popen_errno' = None
    /\ returncode' = None
    /\ error_string' = <<>>
    /\ streams' = "none"
    /\ outbytes' = None
    /\ pending' = NoOutcome
    /\ result' = NoOutcome
    /\ stages' = <<>>
    /\ stage_error' = NoOutcome

\* Events window.read() returns for this layout: None when the window is
\* closed, 'Submit' for the button.
Events == { None, Some("Submit") }

InvalidPathMessage == <<"File path is invalid">>

\* Lines 168-172: window.read(), then file_path and lang_code are taken
\* from values.  For a closed window PySimpleGUI hands back either a
\* dictionary or None as values; values[0] on None raises TypeError.
WindowRead ==
    /\ pc = "window_read"
    /\ \E ev \in Events, values_none \in BOOLEAN, path \in FilePaths, rus \in BOOLEAN :
          /\ values_none => ev = None
          /\ event' = ev
          /\ printed' = NothingPrinted
          /\ IF values_none
             THEN /\ uncaught' = Outcome("raise", "TypeError", "values", "", 0, <<>>, <<>>)
                  /\ pc' = "crashed"
                  /\ UNCHANGED << file_path, lang_code >>
             ELSE /\ file_path' = path
                  /\ lang_code' = IF rus THEN <<"rus">> ELSE <<"eng">>
                  /\ pc' = "loop_body"
                  /\ UNCHANGED uncaught
    /\ UNCHANGED << tempdir, fs, caller >>
    /\ UNCHANGED req_vars

\* A variant of accepts as re.search would test it: a match may start anywhere.
accepts_unanchored_suffix(ev, path) ==
    /\ ev = Some("Submit")
    /\ \E k \in 0..Len(path) : image_regex_match(Drop(path, k))

\* The test of line 176.
accepts(ev, path) == ev = Some("Submit") /\ image_regex_match(path)

\* Lines 174-180 up to the call of process_image: the loop is left, or
\* process_image(file_path, lang_code) is called, or the path is refused.
LoopBody ==
    /\ pc = "loop_body"
    /\ IF event \in { None, Some("Exit") }
       THEN /\ pc' = "exited"
            /\ UNCHANGED printed
       ELSE IF accepts(event, file_path)
       THEN /\ pc' = "process_image"
            /\ UNCHANGED printed
       ELSE /\ printed' = PrintedLiteral(InvalidPathMessage)
            /\ pc' = "window_read"
    /\ UNCHANGED << tempdir, fs, caller, event, file_path, lang_code, uncaught >>
    /\ UNCHANGED req_vars

\* How Image.open(image_name) may end.
OpenOutcomes == { NoImage } \cup OpenedImages

\* process_image (lines 163-164): Image.open, then image_to_string with
\* the image it returned (line 159: extension 'txt').
ProcessImage ==
    /\ pc = "process_image"
    /\ \E opened \in OpenOutcomes :
          IF opened = NoImage
          THEN /\ result' = RaisedOS("FileNotFoundError", "Image.open", "ENOENT")
               /\ pc' = "returned"
               /\ UNCHANGED << image, image0, prepared, extension, lang, temp_name,
                               input_filename, cmd_args, popen_errno, returncode,
                               error_string, streams, outbytes, pending, stages,
                               stage_error >>
          ELSE /\ StartRequest(opened, <<"txt">>, Some(lang_code))
               /\ pc' = "save_enter"
    /\ UNCHANGED << tempdir, fs, caller >>
    /\ UNCHANGED gui_vars

\* Lines 177-178 after process_image has ended: its value is printed and
\* the loop goes on; an exception it raised is caught nowhere and ends the
\* program.
AfterProcessImage ==
    /\ pc = "returned"
    /\ caller = "gui"
    /\ IF result.kind = "return"
       THEN /\ printed' = PrintedData(result.data)
            /\ pc' = "window_read"
            /\ UNCHANGED uncaught
       ELSE /\ uncaught' = result
            /\ pc' = "crashed"
            /\ UNCHANGED printed
    /\ ClearRequest
    /\ UNCHANGED << tempdir, fs, caller, event, file_path, lang_code >>

-----------------------------------------------------------------------------
(* Specifications.                                                         *)

GuiIdle ==
    /\ event = None
    /\ file_path = <<>>
    /\ lang_code = <<>>
    /\ printed = NothingPrinted
    /\ uncaught = NoOutcome

\* The program as it is run: the window is up and the loop waits for its
\* first event.
Init ==
    /\ pc = "window_read"
    /\ caller = "gui"
    /\ tempdir = PlainTemp
    /\ fs = { UserImage }
    /\ GuiIdle
    /\ NoRequest

Next ==
    \/ WindowRead
    \/ LoopBody
    \/ ProcessImage
    \/ SaveEnter
    \/ RunTesseract
    \/ ReadOutput
    \/ SaveExit
    \/ AfterProcessImage

Spec == Init /\ [][Next]_vars

\* Direct calls of the wrapper: image_to_string(image, lang), which passes
\* extension 'txt', and run_and_get_output(image, '', lang).
ApiCalls ==
    { [fn |-> "image_to_string", ext |-> <<"txt">>],
      [fn |-> "run_and_get_output", ext |-> <<>>] }

InitApi ==
    /\ pc = "save_enter"
    /\ tempdir \in TempDirs
    /\ fs = { UserImage }
    /\ GuiIdle
    /\ \E call \in ApiCalls :
          /\ caller = call.fn
          /\ extension = call.ext
    /\ image \in ApiImages
    /\ image0 = image
    /\ lang \in ApiLangs
    /\ prepared = NoImage
    /\ temp_name = None
    /\ input_filename = None
    /\ cmd_args = <<>>
    /\ popen_errno = None
    /\ returncode = None
    /\ error_string = <<>>
    /\ streams = "none"
    /\ outbytes = None
    /\ pending = NoOutcome
    /\ result = NoOutcome
    /\ stages = <<>>
    /\ stage_error = NoOutcome

NextApi ==
    \/ SaveEnter
    \/ RunTesseract
    \/ ReadOutput
    \/ SaveExit

SpecApi == InitApi /\ [][NextApi]_vars

\* Direct calls of prepare(image).
PrepareCall ==
    /\ pc = "prepare"
    /\ LET p == prepare(image)
       IN  /\ image' = p.arg
           /\ prepared' = p.image
           /\ result' = IF p.raised THEN UnsupportedImage
                        ELSE Outcome("return", "", "prepare", "", 0, <<>>, <<p.extension>>)
    /\ pc' = "returned"
    /\ UNCHANGED << tempdir, fs, caller, image0, extension, lang, temp_name,
                    input_filename, cmd_args, popen_errno, returncode, error_string,
                    streams, outbytes, pending, stages, stage_error >>
    /\ UNCHANGED gui_vars

InitPrepare ==
    /\ pc = "prepare"
    /\ caller = "prepare"
    /\ tempdir = PlainTemp
    /\ fs = { UserImage }
    /\ GuiIdle
    /\ image \in PrepareInputs
    /\ image0 = image
    /\ prepared = NoImage
    /\ extension = <<>>
    /\ lang = None
    /\ temp_name = None
    /\ input_filename = None
    /\ cmd_args = <<>>
    /\ popen_errno = None
    /\ returncode = None
    /\ error_string = <<>>
    /\ streams = "none"
    /\ outbytes = None
    /\ pending = NoOutcome
    /\ result = NoOutcome
    /\ stages = <<>>
    /\ stage_error = NoOutcome

NextPrepare == PrepareCall

SpecPrepare == InitPrepare /\ [][NextPrepare]_vars

-----------------------------------------------------------------------------
(* Properties.                                                             *)

StartsWith(path, prefix) ==
    Len(path) >= Len(prefix) /\ Take(path, Len(prefix)) = prefix

\* The files on disk whose name starts with the request's temp base name.
TempFilesOnDisk == { f \in fs : StartsWith(f, The(temp_name)) }

\* C1: for every request for which a temp base name was generated, input a
\* decoded image, a path string or something else, and for each of its
\* outcomes (a value returned, TypeError from prepare, a failure while
\* saving, TesseractNotFoundError, TesseractError, a missing output file, a
\* decode error), once the call has returned or raised no file whose name
\* starts with the temp base name is on disk.
C1_NoTempFileRemains ==
    (pc = "returned" /\ temp_name # None /\ result.origin # "remove")
        => TempFilesOnDisk = {}

\* C2: when a Submit with an accepted path leads to a request that fails,
\* the error's text is printed to the pane and the loop goes on to read the
\* next event; the program does not end because of the error.
C2_FailedRequestIsPrintedAndLoopGoesOn ==
    (uncaught.kind = "raise" /\ uncaught.origin # "values")
        => (pc = "window_read" /\ printed.kind = "error")

\* C3: when the launched engine exits with a non-zero status s having
\* written bytes e to standard error, run_tesseract raises TesseractError
\* with status s and, as message, the lines of e decoded as UTF-8, joined
\* by single spaces and stripped; the output file is not read.  Exit status
\* 2 with 'Error: bad image' gives (2, 'Error: bad image').
C3_NonZeroExitRaisesTesseractError ==
    (pc = "save_exit" /\ returncode # None /\ The(returncode) # 0)
        => /\ pending.type = "TesseractError"
           /\ pending.status = The(returncode)
           /\ decode_utf8(error_string).ok =>
                 pending.data = strip(join_space(splitlines(decode_utf8(error_string).text)))
           /\ error_string = BadImage => pending.data = BadImage
           /\ "read_output" \notin Range(stages)

\* What C4 says of a request whose launch failed, given who may override
\* the error on its way to the caller.
LaunchFailureReachesCaller(overridden) ==
    (pc = "returned" /\ popen_errno # None /\ ~overridden)
        => /\ IF The(popen_errno) = "ENOENT"
              THEN /\ result.kind = "raise"
                   /\ result.type = "TesseractNotFoundError"
                   /\ tesseract_cmd \in Range(result.msg)
              ELSE result = RaisedOS("OSError", "Popen", The(popen_errno))
           /\ "engine_ran" \notin Range(stages)
           /\ "read_output" \notin Range(stages)
           /\ returncode = None

\* C4 as stated: when launching the engine fails with ENOENT the request
\* fails with TesseractNotFoundError, whose message names tesseract_cmd;
\* when it fails with another OS error that error reaches the caller
\* unchanged; either way the engine is not run and no output file is read.
C4_LaunchFailureReachesCaller == LaunchFailureReachesCaller(FALSE)

\* C4 as amended: the same, unless deleting the request's temporary files
\* then fails with an OS error other than ENOENT, which is raised instead.
C4_LaunchFailureReachesCallerUnlessCleanupRaises ==
    LaunchFailureReachesCaller(result.origin = "remove")

C4_Witness ==
    /\ pc = "returned"
    /\ popen_errno = Some("ENOENT")
    /\ result = TesseractNotFoundError
    /\ temp_name # None
    /\ TempFilesOnDisk = {}

\* What C5 says of a request made through image_to_string whose engine
\* exited with status 0.
OutputReachesCaller(overridden) ==
    (pc = "returned" /\ caller = "image_to_string" /\ returncode = Some(0)
     /\ ~overridden)
        => IF outbytes = None
           THEN result.kind = "raise" /\ result.type = "FileNotFoundError"
           ELSE LET b == The(outbytes)
                IN  /\ decode_utf8(b).ok => result = Returned(decode_utf8(b).text)
                    /\ ~decode_utf8(b).ok =>
                          result.kind = "raise" /\ result.type = "UnicodeDecodeError"
                    /\ b = HelloWorld => result = Returned(HelloWorld)
                    /\ b = <<195, 169>> => result = Returned(<<233>>)
                    /\ b \in { <<169>>, <<195>>, <<195, 97>> } => result.kind = "raise"

\* C5 as stated: when the engine exits 0 having written bytes b to
\* <temp base name>.txt, image_to_string returns exactly the UTF-8 decoding
\* of b; when the file does not exist the call fails with a not-found
\* error, and when b is not valid UTF-8 with a decode error.
C5_OutputReachesCaller == OutputReachesCaller(FALSE)

\* C5 as amended: the same, unless deleting the request's temporary files
\* then fails with an OS error other than ENOENT, which is raised instead.
C5_OutputReachesCallerUnlessCleanupRaises ==
    OutputReachesCaller(result.origin = "remove")

C5_Witness ==
    /\ pc = "returned"
    /\ caller = "image_to_string"
    /\ returncode = Some(0)
    /\ outbytes = Some(HelloWorld)
    /\ result = Returned(HelloWorld)

IsRounded255(value, v) == 2 * (255 * value - v) \in -255..255

\* C7: for a decoded image with an alpha band, prepare returns a new RGB
\* image of the same size, without an alpha band, that is the original
\* composited over opaque white, and leaves the caller's object as it was;
\* for anything that is not a decoded image it raises TypeError and returns
\* nothing.
C7_PrepareFlattensAlpha ==
    pc = "returned" =>
        /\ (image0.kind = "Image" /\ HasAlpha(image0.mode)) =>
              /\ result.kind = "return"
              /\ prepared.kind = "Image"
              /\ prepared.mode = "RGB"
              /\ "A" \notin Range(getbands(prepared.mode))
              /\ prepared.size = image0.size
              /\ Len(prepared.pix) = Len(image0.pix)
              /\ image = image0
              /\ \A i \in 1..Len(image0.pix) :
                    LET px == image0.pix[i]
                        a == px[Len(px)]
                        rgb == IF Len(px) = 2 THEN <<px[1], px[1], px[1]>>
                               ELSE <<px[1], px[2], px[3]>>
                    IN  /\ Len(prepared.pix[i]) = 3
                        /\ \A c \in 1..3 :
                              IsRounded255(prepared.pix[i][c],
                                           rgb[c] * a + 255 * (255 - a))
        /\ image0.kind # "Image" =>
              /\ result.kind = "raise"
              /\ result.type = "TypeError"
              /\ prepared = NoImage

C7_Witness ==
    /\ pc = "returned"
    /\ image0 = Image("RGBA", None, <<1, 1>>, << <<0, 128, 255, 128>> >>)
    /\ prepared.pix = << <<127, 191, 255>> >>
    /\ prepared.format = Some("PNG")
    /\ image.format = None

\* The orders in which a request may go through its stages.
StageOrders ==
    { <<"prepare_input", "cleanup">>,
      <<"prepare_input", "popen_failed", "cleanup">>,
      <<"prepare_input", "engine_ran", "cleanup">>,
      <<"prepare_input", "engine_ran", "read_output", "cleanup">> }

\* C8: a request goes through Preparing Input, Invoking Engine, Reading
\* Output, Cleaned Up in this order; the engine is launched only after the
\* input is in place and at most once, the output is read only after the
\* engine exited with status 0, cleanup comes last; a failing stage skips
\* the later ones but cleanup, and the caller receives the error of the
\* stage that failed.
C8_StagesInOrderAndErrorOfFailedStage ==
    pc = "returned" =>
        /\ stages \in StageOrders
        /\ "read_output" \in Range(stages) => returncode = Some(0)
        /\ ("engine_ran" \in Range(stages) \/ "popen_failed" \in Range(stages))
              => input_filename # None
        /\ stage_error # NoOutcome =>
              /\ result = stage_error
              /\ Len(stages) < 4
        /\ stage_error = NoOutcome => result.kind = "return"

\* C9: the command line launched is the executable name, the input path,
\* the output base, then '-l' and the language exactly when a language was
\* given, then the output-format word exactly when it is not empty; through
\* image_to_string with a language it is
\* [tesseract_cmd, input path, temp base name, '-l', lang, 'txt'].
C9_CommandLine ==
    cmd_args # <<>> =>
        LET n_lang == IF lang # None THEN 2 ELSE 0
            n_ext == IF extension # <<>> THEN 1 ELSE 0
        IN  /\ Len(cmd_args) = 3 + n_lang + n_ext
            /\ cmd_args[1] = <<"tesseract">>
            /\ cmd_args[2] = The(input_filename)
            /\ cmd_args[3] = The(temp_name)
            /\ lang # None => cmd_args[4] = <<"-l">> /\ cmd_args[5] = The(lang)
            /\ extension # <<>> => cmd_args[Len(cmd_args)] = extension
            /\ (caller = "image_to_string" /\ lang # None) =>
                  cmd_args = << <<"tesseract">>, The(input_filename), The(temp_name),
                                <<"-l">>, The(lang), <<"txt">> >>

C9_Witness ==
    /\ caller = "image_to_string"
    /\ lang = Some(<<"eng">>)
    /\ tempdir = PlainTemp
    /\ cmd_args = << <<"tesseract">>, <<Sep, "tmp", Sep, "tess_r1", ".", "PNG">>,
                     <<Sep, "tmp", Sep, "tess_r1">>, <<"-l">>, <<"eng">>, <<"txt">> >>

\* A non-empty name followed by '.png', '.jpg' or '.jpeg'.
HasImageSuffix(path) ==
    \E suf \in RegexSuffixes :
        /\ Len(path) > Len(suf) + 1
        /\ Drop(path, Len(path) - Len(suf) - 1) = <<".">> \o suf

\* C10: on a Submit, every file path that is a non-empty name followed by
\* '.png', '.jpg' or '.jpeg' is accepted, whatever else it holds (whitespace
\* in a directory or file name included): process_image is called with it
\* and 'File path is invalid' is not printed.
C10_SuffixedPathIsAccepted ==
    (event = Some("Submit") /\ HasImageSuffix(file_path) /\ pc # "loop_body")
        => printed # PrintedLiteral(InvalidPathMessage)

=============================================================================
